---- MODULE Spec2Model ----
(***************************************************************************)
(* Fixed-supply token program (src/src/lib.rs).                            *)
(*                                                                         *)
(* The program has one entry point, process_instruction, which validates   *)
(* five accounts, mints TOTAL_SUPPLY * 10^DECIMALS base units through the  *)
(* token program (mint_to), revokes the mint authority through the token   *)
(* program (set_authority to None) and re-reads the mint to verify it.     *)
(*                                                                         *)
(* The state is the data of the accounts the program reads and that the    *)
(* token program writes: one mint account ("M1") and two token accounts    *)
(* ("T1", "T2"), plus the position of the current invocation.              *)
(*                                                                         *)
(* Account data written by a delegated call stays written when the run     *)
(* fails afterwards: what the runtime does with the accounts of a failed   *)
(* transaction is not part of the program.                                 *)
(*                                                                         *)
(* u64 values are little-endian sequences of base-10^4 limbs without       *)
(* leading zero limbs, so that 64-bit quantities keep their full width.    *)
(***************************************************************************)
EXTENDS Integers, Sequences, FiniteSets

VARIABLES
    mint,       \* unpacked data of the mint account M1 (spl_token::state::Mint)
    toks,       \* unpacked data of the token accounts (spl_token::state::Account)
    programOwner, \* owner program of every account (AccountInfo.owner)
    pc,         \* "idle", "called" (accounts handed over) or "returned"
    accounts,   \* the AccountInfo slice of the current invocation
    result,     \* ProgramResult of the last run of this invocation, "None" before
    calls,      \* delegated calls made by the last run, in order, with outcome
    entry,      \* account data as it was when the last run started
    rerun,      \* whether the current run repeats the invocation before it
    ext,        \* number of direct MintTo calls that succeeded so far
    extResult,  \* outcome of a direct MintTo call just made, "None" otherwise
    build,      \* the constants TOTAL_SUPPLY and DECIMALS the program was built with
    minted,     \* number of delegated mint_to calls that succeeded so far
    succeeded   \* number of runs that returned Ok so far

vars == <<mint, toks, programOwner, pc, accounts, result, calls, entry, rerun, ext, extResult,
          build, minted, succeeded>>

---------------------------------------------------------------------------
(* u64 arithmetic on limbs *)

Base == 10^4

RECURSIVE ToLimbs(_)
ToLimbs(n) == IF n = 0 THEN <<>> ELSE <<n % Base>> \o ToLimbs(n \div Base)

RECURSIVE Norm(_)
Norm(x) ==
    IF x = <<>> THEN <<>>
    ELSE IF x[Len(x)] = 0 THEN Norm(SubSeq(x, 1, Len(x) - 1))
    ELSE x

RECURSIVE AddC(_, _, _)
AddC(x, y, c) ==
    IF x = <<>> /\ y = <<>> THEN (IF c = 0 THEN <<>> ELSE <<c>>)
    ELSE LET a == IF x = <<>> THEN 0 ELSE Head(x)
             b == IF y = <<>> THEN 0 ELSE Head(y)
             s == a + b + c
         IN  <<s % Base>> \o AddC(IF x = <<>> THEN <<>> ELSE Tail(x),
                                  IF y = <<>> THEN <<>> ELSE Tail(y),
                                  s \div Base)

Add(x, y) == Norm(AddC(x, y, 0))

RECURSIVE MulSmallC(_, _, _)
MulSmallC(x, k, c) ==
    IF x = <<>> THEN (IF c = 0 THEN <<>> ELSE <<c>>)
    ELSE LET p == Head(x) * k + c
         IN  <<p % Base>> \o MulSmallC(Tail(x), k, p \div Base)

RECURSIVE Mul(_, _)
Mul(x, y) ==
    IF y = <<>> THEN <<>>
    ELSE Add(Norm(MulSmallC(x, Head(y), 0)),
             LET rest == Mul(x, Tail(y))
             IN  IF rest = <<>> THEN <<>> ELSE <<0>> \o rest)

RECURSIVE LeqFrom(_, _, _)
LeqFrom(x, y, i) ==
    IF i = 0 THEN TRUE
    ELSE IF x[i] # y[i] THEN x[i] < y[i]
    ELSE LeqFrom(x, y, i - 1)

Leq(x, y) ==
    IF Len(x) # Len(y) THEN Len(x) < Len(y) ELSE LeqFrom(x, y, Len(x))

\* u64::MAX = 18_446_744_073_709_551_615
U64_MAX == <<1615, 955, 737, 6744, 1844>>

\* The None of an Option<u64> and a panic in place of a u64: sequences that
\* are no limbs, to compare with limbs
NoU64 == <<-1>>

Panic == <<-2>>

\* u64::checked_mul: None when the product does not fit 64 bits
checked_mul(x, y) ==
    LET p == Mul(x, y) IN IF Leq(p, U64_MAX) THEN p ELSE NoU64

\* u64::checked_add, as the token program uses it on supply and amount
checked_add(x, y) ==
    LET s == Add(x, y) IN IF Leq(s, U64_MAX) THEN s ELSE NoU64

\* 10^e, exact
RECURSIVE pow10(_)
pow10(e) == IF e = 0 THEN <<1>> ELSE Norm(MulSmallC(pow10(e - 1), 10, 0))

\* x - y for x >= y
RECURSIVE SubB(_, _, _)
SubB(x, y, b) ==
    IF x = <<>> THEN <<>>
    ELSE LET s == Head(x) - (IF y = <<>> THEN 0 ELSE Head(y)) - b
         IN  <<s % Base>> \o SubB(Tail(x), IF y = <<>> THEN <<>> ELSE Tail(y),
                                  IF s < 0 THEN 1 ELSE 0)

Sub(x, y) == Norm(SubB(x, y, 0))

\* x modulo 2^64, what a wrapping u64 operation keeps of the exact value x
RECURSIVE Wrap64(_)
Wrap64(x) == IF Leq(x, U64_MAX) THEN x ELSE Wrap64(Sub(x, Add(U64_MAX, <<1>>)))

\* 10u64.wrapping_pow(e), the power modulo 2^64
RECURSIVE wrapping_pow10(_)
wrapping_pow10(e) ==
    IF e = 0 THEN <<1>> ELSE Wrap64(Norm(MulSmallC(wrapping_pow10(e - 1), 10, 0)))

\* 10u64.pow(e) (line 54), the outcomes a build can produce: the power when
\* it fits 64 bits; beyond that a panic when the build checks overflow and
\* the wrapped power when it does not
u64_pow10(e) ==
    IF Leq(pow10(e), U64_MAX) THEN {pow10(e)} ELSE {Panic, wrapping_pow10(e)}

---------------------------------------------------------------------------
(* Program constants and the accounts of the model *)

TOTAL_SUPPLY == 500000000

DECIMALS == 9

\* The constants as shipped
ShippedBuild == [total_supply |-> ToLimbs(TOTAL_SUPPLY), decimals |-> DECIMALS]

\* Variant: the supply multiplied by 10 * DECIMALS instead of 10^DECIMALS
total_supply_times_decimals ==
    {checked_mul(build.total_supply, ToLimbs(10 * build.decimals))}

\* Total supply with decimals (lines 53-54), the outcomes the build can
\* produce: a panic, or the Option of checked_mul, None when the product with
\* the power overflows
total_supply_with_decimals ==
    { IF p = Panic THEN Panic ELSE checked_mul(build.total_supply, p) :
        p \in u64_pow10(build.decimals) }

None == "None"

is_some(o) == o # None

is_none(o) == o = None

\* spl_token::id() and some other program
TokenProgramId == "spl_token"

OtherProgram == "other_program"

SystemProgram == "system_program"

\* Signer identities; DefaultKey is Pubkey::default(), what zeroed data unpacks to
Keys == {"A", "B"}

DefaultKey == "Zero"

MintKey == "M1"

ForeignMintKey == "M2"

TokenKeys == {"T1", "T2"}

\* Bounds of the model
StraySupply == 100

OtherDecimals == 6

MaxDefects == 2

MaxExternalMints == 1

\* Largest value of DECIMALS tried in place of 9; 10^20 is the first power of
\* ten beyond 64 bits
MaxDecimals == 20

Zero == <<>>

Stray == ToLimbs(StraySupply)

\* A mint as the program expects it at entry, and a mint account never initialized
HappyMint ==
    [is_initialized |-> TRUE, decimals |-> DECIMALS, supply |-> Zero,
     mint_authority |-> "A", freeze_authority |-> None]

ZeroMint ==
    [is_initialized |-> FALSE, decimals |-> 0, supply |-> Zero,
     mint_authority |-> None, freeze_authority |-> None]

MintStates ==
    {ZeroMint} \cup
    [is_initialized : {TRUE}, decimals : {DECIMALS, OtherDecimals},
     supply : {Zero, Stray}, mint_authority : {None} \cup Keys,
     freeze_authority : {None, "A"}]

\* A token account as the program expects it at entry (owned by "A"), and one
\* never initialized
HappyToken ==
    [state |-> "Initialized", owner |-> "A", mint |-> MintKey, amount |-> Zero,
     delegate |-> None, close_authority |-> None]

ZeroToken ==
    [state |-> "Uninitialized", owner |-> DefaultKey, mint |-> DefaultKey,
     amount |-> Zero, delegate |-> None, close_authority |-> None]

TokenStates ==
    {ZeroToken} \cup
    [state : {"Initialized", "Frozen"}, owner : Keys, mint : {MintKey, ForeignMintKey},
     amount : {Zero, Stray}, delegate : {None, "B"}, close_authority : {None, "B"}]

B2N(b) == IF b THEN 1 ELSE 0

\* How far an initial world is from the happy one; Init explores every world
\* within MaxDefects of it
MintDefects(m) ==
    IF ~m.is_initialized THEN 1
    ELSE B2N(m.decimals # HappyMint.decimals) + B2N(m.supply # Zero)
         + B2N(m.mint_authority # HappyMint.mint_authority)
         + B2N(m.freeze_authority # None)

TokenDefects(t) ==
    IF t.state = "Uninitialized" THEN 1
    ELSE B2N(t.state # "Initialized") + B2N(t.owner # HappyToken.owner)
         + B2N(t.mint # MintKey) + B2N(t.amount # Zero)
         + B2N(t.delegate # None) + B2N(t.close_authority # None)

OwnerDefects(o) ==
    B2N(o[MintKey] # TokenProgramId) + B2N(o["T1"] # TokenProgramId)

OwnerMaps ==
    {o \in [{MintKey} \cup TokenKeys -> {TokenProgramId, OtherProgram}] :
        o["T2"] = TokenProgramId}

---------------------------------------------------------------------------
(* The token program (spl_token), as the program calls it *)

\* Pack::unpack of a Mint (lines 88, 152): fails on data never initialized
Mint_unpack(data) ==
    IF data.is_initialized THEN [err |-> None, value |-> data]
    ELSE [err |-> "UninitializedAccount", value |-> data]

\* Pack::unpack of a token Account (line 101)
TokenAccount_unpack(data) ==
    IF data.state # "Uninitialized" THEN [err |-> None, value |-> data]
    ELSE [err |-> "UninitializedAccount", value |-> data]

\* Variant: a token program that mints for whoever asks
MintToAccepted_any_authority(m, t, mint_key, authority, amount) ==
    /\ m.is_initialized
    /\ t.state = "Initialized"
    /\ t.mint = mint_key
    /\ checked_add(m.supply, amount) # NoU64
    /\ checked_add(t.amount, amount) # NoU64

\* What the token program requires of a MintTo instruction
MintToAccepted(m, t, mint_key, authority, amount) ==
    /\ m.is_initialized
    /\ t.state = "Initialized"
    /\ t.mint = mint_key
    /\ m.mint_authority = authority
    /\ checked_add(m.supply, amount) # NoU64
    /\ checked_add(t.amount, amount) # NoU64

\* Variant: a MintTo that has already raised the supply when it fails
mint_to_not_atomic(m, t, mint_key, authority, amount, will_fail) ==
    IF ~MintToAccepted(m, t, mint_key, authority, amount)
    THEN [ok |-> FALSE, mint |-> m, tok |-> t]
    ELSE [ok |-> ~will_fail,
          mint |-> [m EXCEPT !.supply = checked_add(m.supply, amount)],
          tok |-> IF will_fail THEN t
                  ELSE [t EXCEPT !.amount = checked_add(t.amount, amount)]]

\* invoke(mint_to(...)) (lines 115-130). The call is all-or-nothing: it either
\* adds amount to the supply and to the destination, or fails and changes nothing.
\* will_fail is a failure of the call for a reason outside the account data.
mint_to(m, t, mint_key, authority, amount, will_fail) ==
    IF will_fail \/ ~MintToAccepted(m, t, mint_key, authority, amount)
    THEN [ok |-> FALSE, mint |-> m, tok |-> t]
    ELSE [ok |-> TRUE,
          mint |-> [m EXCEPT !.supply = checked_add(m.supply, amount)],
          tok |-> [t EXCEPT !.amount = checked_add(t.amount, amount)]]

\* invoke(set_authority(.., None, MintTokens, ..)) (lines 134-148). behaviour is
\* "ok" (the authority is cleared), "fail" (the call fails, nothing changes) or
\* "noop" (a token program that reports success without clearing the field).
set_authority(m, authority, new_authority, behaviour) ==
    IF behaviour = "fail" \/ ~m.is_initialized \/ m.mint_authority # authority
    THEN [ok |-> FALSE, mint |-> m]
    ELSE IF behaviour = "noop" THEN [ok |-> TRUE, mint |-> m]
    ELSE [ok |-> TRUE, mint |-> [m EXCEPT !.mint_authority = new_authority]]

\* spl_token::instruction::mint_to / set_authority build the instruction and
\* fail when the program id given is not the token program's (lines 116-123, 135-142)
check_program_account(token_program) ==
    IF token_program.key = TokenProgramId THEN None ELSE "IncorrectProgramId"

---------------------------------------------------------------------------
(* process_instruction (lines 47-158) *)

\* line 66
SignatureMissing(mint_authority, payer) ==
    ~mint_authority.is_signer \/ ~payer.is_signer

\* Variant: the comparison of authority and payer left out
AuthorityIsNotPayer_unchecked(mint_authority, payer) == FALSE

\* line 71
AuthorityIsNotPayer(mint_authority, payer) == mint_authority.key # payer.key

\* line 76
NotOwnedByTokenProgram(mint_account, token_account) ==
    mint_account.owner # TokenProgramId \/ token_account.owner # TokenProgramId

\* line 81
NotWritable(mint_account, token_account) ==
    ~mint_account.is_writable \/ ~token_account.is_writable

\* lines 89-93
\* Variant: the supply of the mint not looked at
MintStateExpected_any_supply(mint_data, mint_authority) ==
    /\ mint_data.is_initialized
    /\ mint_data.decimals = build.decimals
    /\ is_none(mint_data.freeze_authority)
    /\ mint_data.mint_authority = mint_authority.key

\* Variant: only the initialization of the mint looked at
MintStateExpected_unchecked(mint_data, mint_authority) == mint_data.is_initialized

\* lines 89-93
MintStateExpected(mint_data, mint_authority) ==
    /\ mint_data.is_initialized
    /\ mint_data.decimals = build.decimals
    /\ mint_data.supply = Zero
    /\ is_none(mint_data.freeze_authority)
    /\ mint_data.mint_authority = mint_authority.key

\* Variant: the owner of the token account not compared with the payer
TokenOwnerIsNotPayer_unchecked(token_data, payer) == FALSE

\* line 102
TokenOwnerIsNotPayer(token_data, payer) == token_data.owner # payer.key

\* Variant: the delegate of the token account not looked at
TokenStateExpected_any_delegate(token_data, mint_account) ==
    /\ token_data.mint = mint_account.key
    /\ token_data.amount = Zero
    /\ is_none(token_data.close_authority)

\* lines 105-108
TokenStateExpected(token_data, mint_account) ==
    /\ token_data.mint = mint_account.key
    /\ token_data.amount = Zero
    /\ is_none(token_data.delegate)
    /\ is_none(token_data.close_authority)

\* Variant: the result of invoke(mint_to) dropped instead of propagated
MintToFailed_ignored(r) == FALSE

\* the ? after each delegated call (lines 130, 148): an Err returns at once
MintToFailed(r) == ~r.ok

\* Variant: the result of invoke(set_authority) dropped instead of propagated
SetAuthorityFailed_ignored(r) == FALSE

SetAuthorityFailed(r) == ~r.ok

\* Variant: the final check left out
AuthorityNotRevoked_unchecked(final_mint_data) == FALSE

\* line 153
AuthorityNotRevoked(final_mint_data) == is_some(final_mint_data.mint_authority)

\* What one run leaves behind
Outcome(res, m, ts, cs) == [result |-> res, mint |-> m, toks |-> ts, calls |-> cs]

\* Step 3 (lines 150-157)
VerifyRevoked(m, ts, cs) ==
    LET final_mint_data == Mint_unpack(m)
    IN  IF final_mint_data.err # None THEN Outcome(final_mint_data.err, m, ts, cs)
        ELSE IF AuthorityNotRevoked(final_mint_data.value)
        THEN Outcome("MintAuthorityNotRevoked", m, ts, cs)
        ELSE Outcome("Ok", m, ts, cs)

\* Step 2 (lines 132-148)
RevokeAuthority(accts, m, ts, cs, behaviour) ==
    LET mint_authority == accts[3]
        token_program == accts[5]
    IN  IF check_program_account(token_program) # None
        THEN Outcome(check_program_account(token_program), m, ts, cs)
        ELSE LET r == set_authority(m, mint_authority.key, None, behaviour)
                 cs2 == Append(cs, [op |-> "set_authority", ok |-> r.ok])
             IN  IF SetAuthorityFailed(r)
                 THEN Outcome("SetAuthorityError", r.mint, ts, cs2)
                 ELSE VerifyRevoked(r.mint, ts, cs2)

\* Variant: the first token account minted to, whichever was passed
MintTotalSupply_to_first_account(accts, m, ts, amount, will_fail, behaviour) ==
    LET mint_account == accts[1]
        mint_authority == accts[3]
        token_program == accts[5]
    IN  IF check_program_account(token_program) # None
        THEN Outcome(check_program_account(token_program), m, ts, <<>>)
        ELSE LET r == mint_to(m, ts["T1"], mint_account.key,
                              mint_authority.key, amount, will_fail)
                 ts2 == [ts EXCEPT !["T1"] = r.tok]
                 cs == <<[op |-> "mint_to", ok |-> r.ok]>>
             IN  IF MintToFailed(r)
                 THEN Outcome("MintToError", r.mint, ts2, cs)
                 ELSE RevokeAuthority(accts, r.mint, ts2, cs, behaviour)

\* Step 1 (lines 113-130)
MintTotalSupply(accts, m, ts, amount, will_fail, behaviour) ==
    LET mint_account == accts[1]
        token_account == accts[2]
        mint_authority == accts[3]
        token_program == accts[5]
    IN  IF check_program_account(token_program) # None
        THEN Outcome(check_program_account(token_program), m, ts, <<>>)
        ELSE LET r == mint_to(m, ts[token_account.key], mint_account.key,
                              mint_authority.key, amount, will_fail)
                 ts2 == [ts EXCEPT ![token_account.key] = r.tok]
                 cs == <<[op |-> "mint_to", ok |-> r.ok]>>
             IN  IF MintToFailed(r)
                 THEN Outcome("MintToError", r.mint, ts2, cs)
                 ELSE RevokeAuthority(accts, r.mint, ts2, cs, behaviour)

\* The validation (lines 57-111): the error of the first check that fails, else None
Validate(accts, m, ts) ==
    IF Len(accts) < 5 THEN "NotEnoughAccountKeys"
    ELSE LET mint_account == accts[1]
             token_account == accts[2]
             mint_authority == accts[3]
             payer == accts[4]
         IN  IF SignatureMissing(mint_authority, payer) THEN "MissingRequiredSignature"
             ELSE IF AuthorityIsNotPayer(mint_authority, payer) THEN "MintAuthorityMismatch"
             ELSE IF NotOwnedByTokenProgram(mint_account, token_account) THEN "IllegalOwner"
             ELSE IF NotWritable(mint_account, token_account) THEN "InvalidAccountData"
             ELSE LET mint_data == Mint_unpack(m)
                  IN  IF mint_data.err # None THEN mint_data.err
                      ELSE IF ~MintStateExpected(mint_data.value, mint_authority)
                      THEN "InvalidMintState"
                      ELSE LET token_data == TokenAccount_unpack(ts[token_account.key])
                           IN  IF token_data.err # None THEN token_data.err
                               ELSE IF TokenOwnerIsNotPayer(token_data.value, payer)
                               THEN "TokenAccountOwnerMismatch"
                               ELSE IF ~TokenStateExpected(token_data.value, mint_account)
                               THEN "TokenAccountNotEmpty"
                               ELSE None

\* The whole body (lines 52-157)
Run(scaled, accts, m, ts, will_fail, behaviour) ==
    IF scaled = Panic THEN Outcome("Panic", m, ts, <<>>)
    ELSE IF scaled = NoU64 THEN Outcome("InvalidArgument", m, ts, <<>>)
    ELSE LET e == Validate(accts, m, ts)
         IN  IF e # None THEN Outcome(e, m, ts, <<>>)
             ELSE MintTotalSupply(accts, m, ts, scaled, will_fail, behaviour)

---------------------------------------------------------------------------
(* Invocations *)

World == [mint |-> mint, toks |-> toks]

\* The AccountInfo the runtime builds for an account of the transaction
AccountInfo(k, signer, writable) ==
    [key |-> k,
     owner |-> IF k \in DOMAIN programOwner THEN programOwner[k]
               ELSE IF k = TokenProgramId \/ k = OtherProgram THEN "loader"
               ELSE SystemProgram,
     is_signer |-> signer, is_writable |-> writable]

\* accounts: mint, token account, mint authority, payer, token program (lines 59-63)
AccountInfos(dest, authority, payer, auth_signs, payer_signs, mint_w, token_w, program) ==
    << AccountInfo(MintKey, FALSE, mint_w),
       AccountInfo(dest, FALSE, token_w),
       AccountInfo(authority, auth_signs, FALSE),
       AccountInfo(payer, payer_signs, FALSE),
       AccountInfo(program, FALSE, FALSE) >>

\* Five accounts and the token program; one key signs or does not, whatever
\* the positions it is passed in
RegularInputs ==
    { AccountInfos(d, a, p, sa, sp, mw, tw, TokenProgramId) :
        <<d, a, p, sa, sp, mw, tw>> \in
            { x \in TokenKeys \X Keys \X Keys \X BOOLEAN \X BOOLEAN \X BOOLEAN \X BOOLEAN :
                x[2] = x[3] => x[4] = x[5] } }

\* Fully signed, writable inputs with another program in place of the token
\* program, or with the last account missing
ForeignProgramInputs ==
    { AccountInfos(d, a, p, TRUE, TRUE, TRUE, TRUE, OtherProgram) :
        <<d, a, p>> \in TokenKeys \X Keys \X Keys }

ShortInputs == { SubSeq(x, 1, 4) : x \in ForeignProgramInputs }

Inputs == RegularInputs \cup ForeignProgramInputs \cup ShortInputs

TypeOK ==
    /\ mint \in [is_initialized : BOOLEAN, decimals : 0..255, supply : Seq(0..(Base - 1)),
                 mint_authority : {None} \cup Keys, freeze_authority : {None} \cup Keys]
    /\ DOMAIN toks = TokenKeys
    /\ pc \in {"idle", "called", "returned"}
    /\ rerun \in BOOLEAN
    /\ ext \in 0..MaxExternalMints
    /\ build \in [total_supply : Seq(0..(Base - 1)), decimals : 0..255]
    /\ minted \in Nat
    /\ succeeded \in Nat

Init ==
    /\ mint \in MintStates
    /\ toks \in [TokenKeys -> TokenStates]
    /\ toks["T2"] = HappyToken
    /\ programOwner \in OwnerMaps
    /\ MintDefects(mint) + TokenDefects(toks["T1"]) + OwnerDefects(programOwner) <= MaxDefects
    \* the token program keeps the balances of a mint within its supply
    /\ (toks["T1"].mint = MintKey => Leq(toks["T1"].amount, mint.supply))
    /\ pc = "idle"
    /\ accounts = <<>>
    /\ result = None
    /\ calls = <<>>
    /\ entry = World
    /\ rerun = FALSE
    /\ ext = 0
    /\ extResult = None
    /\ build = ShippedBuild
    /\ minted = 0
    /\ succeeded = 0

\* A transaction invoking the program arrives with its accounts
Call(accts) ==
    /\ pc = "idle"
    /\ pc' = "called"
    /\ accounts' = accts
    /\ rerun' = FALSE
    /\ extResult' = None
    /\ UNCHANGED <<mint, toks, programOwner, result, calls, entry, ext,
                   build, minted, succeeded>>

\* What the token program may do with the two calls of one run: mint_to fails
\* (set_authority is then never reached), or it succeeds and set_authority
\* clears the authority, fails, or reports success without clearing it
Collaborator ==
    {[mint_to_fails |-> TRUE, set_authority |-> "ok"]} \cup
    [mint_to_fails : {FALSE}, set_authority : {"ok", "fail", "noop"}]

\* A delegated mint_to call that went through
MintToSucceeded(call) == call.op = "mint_to" /\ call.ok

\* One run of process_instruction, start to end (lines 47-158)
process_instruction ==
    /\ pc = "called"
    /\ \E scaled \in total_supply_with_decimals, c \in Collaborator :
         LET o == Run(scaled, accounts, mint, toks, c.mint_to_fails, c.set_authority)
         IN  /\ mint' = o.mint
             /\ toks' = o.toks
             /\ result' = o.result
             /\ calls' = o.calls
             /\ minted' = minted + Len(SelectSeq(o.calls, MintToSucceeded))
             /\ succeeded' = IF o.result = "Ok" THEN succeeded + 1 ELSE succeeded
    /\ entry' = World
    /\ pc' = "returned"
    /\ UNCHANGED <<programOwner, accounts, rerun, ext, extResult, build>>

\* The caller submits the same invocation again
Reinvoke ==
    /\ pc = "returned"
    /\ rerun' = TRUE
    /\ pc' = "called"
    /\ UNCHANGED <<mint, toks, programOwner, accounts, result, calls, entry, ext, extResult,
                   build, minted, succeeded>>

\* The invocation is over; nothing of it is kept
Return ==
    /\ pc = "returned"
    /\ pc' = "idle"
    /\ accounts' = <<>>
    /\ result' = None
    /\ calls' = <<>>
    /\ entry' = World
    /\ rerun' = FALSE
    /\ UNCHANGED <<mint, toks, programOwner, ext, extResult, build, minted, succeeded>>

\* Anyone calls the token program's MintTo directly, between invocations
ExternalMintTo(identity, dest, will_fail) ==
    /\ pc = "idle"
    /\ ext < MaxExternalMints
    /\ LET r == mint_to(mint, toks[dest], MintKey, identity, Stray,
                        will_fail \/ programOwner[MintKey] # TokenProgramId
                                  \/ programOwner[dest] # TokenProgramId)
       IN  /\ mint' = r.mint
           /\ toks' = [toks EXCEPT ![dest] = r.tok]
           /\ extResult' = IF r.ok THEN "Ok" ELSE "Err"
           /\ ext' = IF r.ok THEN ext + 1 ELSE ext
           /\ entry' = [mint |-> r.mint, toks |-> [toks EXCEPT ![dest] = r.tok]]
    /\ UNCHANGED <<programOwner, pc, accounts, result, calls, rerun, build, minted, succeeded>>

\* Anyone calls the token program's SetAuthority(MintTokens) directly
ExternalSetAuthority(identity, new_authority, behaviour) ==
    /\ pc = "idle"
    /\ LET r == set_authority(mint, identity, new_authority,
                              IF programOwner[MintKey] # TokenProgramId
                              THEN "fail" ELSE behaviour)
       IN  /\ mint' = r.mint
           /\ entry' = [mint |-> r.mint, toks |-> toks]
    /\ extResult' = None
    /\ UNCHANGED <<toks, programOwner, pc, accounts, result, calls, rerun, ext,
                   build, minted, succeeded>>

Next ==
    \/ \E accts \in Inputs : Call(accts)
    \/ process_instruction
    \/ Reinvoke
    \/ Return

NextOpen ==
    \/ Next
    \/ \E identity \in Keys, dest \in TokenKeys, will_fail \in BOOLEAN :
         ExternalMintTo(identity, dest, will_fail)
    \/ \E identity \in Keys, new_authority \in {None} \cup Keys, behaviour \in {"ok", "fail"} :
         ExternalSetAuthority(identity, new_authority, behaviour)

\* The program alone
Spec == Init /\ [][Next]_vars

\* The program and everyone else who can reach the token program, around a
\* mint in any initial state and token accounts ready to receive
InitOpen ==
    /\ Init
    /\ toks["T1"] = HappyToken
    /\ OwnerDefects(programOwner) = 0

SpecOpen == InitOpen /\ [][NextOpen]_vars

\* Values of TOTAL_SUPPLY a build may have: 1, the shipped 500_000_000,
\* 20_000_000_000 and u64::MAX
SupplyChoices == {<<1>>, ToLimbs(TOTAL_SUPPLY), <<0, 0, 200>>, U64_MAX}

\* The program built with other constants TOTAL_SUPPLY: u64 and DECIMALS: u8
Builds == [total_supply : SupplyChoices, decimals : 0..MaxDecimals]

\* Any such build, around a mint and token accounts in the state that build
\* expects
InitBuilds ==
    /\ build \in Builds
    /\ mint = [HappyMint EXCEPT !.decimals = build.decimals]
    /\ toks = [k \in TokenKeys |-> HappyToken]
    /\ programOwner = [k \in {MintKey} \cup TokenKeys |-> TokenProgramId]
    /\ pc = "idle"
    /\ accounts = <<>>
    /\ result = None
    /\ calls = <<>>
    /\ entry = World
    /\ rerun = FALSE
    /\ ext = 0
    /\ extResult = None
    /\ minted = 0
    /\ succeeded = 0

SpecBuilds == InitBuilds /\ [][Next]_vars

---------------------------------------------------------------------------
(* Properties *)

\* 500_000_000_000_000_000 = 50 * (10^4)^4
ScaledTotal == <<0, 0, 0, 0, 50>>

Returned == pc = "returned"

\* The seven preconditions of an invocation, over the accounts given and the
\* account data m (mint) and t (destination)
Pre1(accts) == accts[3].is_signer /\ accts[4].is_signer

Pre2(accts) == accts[3].key = accts[4].key

Pre3(accts) == accts[1].owner = TokenProgramId /\ accts[2].owner = TokenProgramId

Pre4(accts) == accts[1].is_writable /\ accts[2].is_writable

Pre5(accts, m) ==
    /\ m.is_initialized
    /\ m.decimals = 9
    /\ m.supply = Zero
    /\ m.freeze_authority = None
    /\ m.mint_authority = accts[3].key

Pre6(accts, t) == t.owner = accts[4].key

Pre7(accts, t) ==
    /\ t.mint = accts[1].key
    /\ t.amount = Zero
    /\ t.delegate = None
    /\ t.close_authority = None

Pre1to4(accts) == Pre1(accts) /\ Pre2(accts) /\ Pre3(accts) /\ Pre4(accts)

AllPre(accts, m, ts) ==
    /\ Pre1to4(accts)
    /\ Pre5(accts, m)
    /\ Pre6(accts, ts[accts[2].key])
    /\ Pre7(accts, ts[accts[2].key])

\* The error of the lowest-numbered precondition that does not hold
FirstViolated(accts, m, ts) ==
    IF ~Pre1(accts) THEN "MissingRequiredSignature"
    ELSE IF ~Pre2(accts) THEN "MintAuthorityMismatch"
    ELSE IF ~Pre3(accts) THEN "IllegalOwner"
    ELSE IF ~Pre4(accts) THEN "InvalidAccountData"
    ELSE IF ~Pre5(accts, m) THEN "InvalidMintState"
    ELSE IF ~Pre6(accts, ts[accts[2].key]) THEN "TokenAccountOwnerMismatch"
    ELSE IF ~Pre7(accts, ts[accts[2].key]) THEN "TokenAccountNotEmpty"
    ELSE None

\* The destination account of the current invocation, now and at entry
Destination == toks[accounts[2].key]

DestinationAtEntry == entry.toks[accounts[2].key]

Unmutated == mint = entry.mint /\ toks = entry.toks

\* C1: whenever process_instruction returns success, mint.supply and the
\* destination's amount are both 500_000_000_000_000_000 and the mint has no
\* mint authority.
C1_SuccessPostState ==
    (Returned /\ result = "Ok") =>
        /\ mint.supply = ScaledTotal
        /\ Destination.amount = ScaledTotal
        /\ mint.mint_authority = None

C1_Witness ==
    Returned /\ result = "Ok" /\ entry.mint.supply = Zero /\ DestinationAtEntry.amount = Zero

FailedBeforeMintCompleted ==
    Returned /\ result \notin {"Ok", "SetAuthorityError", "MintAuthorityNotRevoked"}

\* The errors of the seven preconditions
PreconditionErrors ==
    {"MissingRequiredSignature", "MintAuthorityMismatch", "IllegalOwner",
     "InvalidAccountData", "InvalidMintState", "TokenAccountOwnerMismatch",
     "TokenAccountNotEmpty"}

\* C3 as claimed: after every invocation that fails on a precondition or on the
\* delegated mint itself, mint.supply = 0 and destination.amount = 0.
C3_Original ==
    (Returned /\ result \in PreconditionErrors \cup {"MintToError"})
        => (mint.supply = Zero /\ Destination.amount = Zero)

\* C3 as amended: after every invocation that fails before the delegated mint
\* completes, mint.supply and the amount of every token account are what they
\* were at entry (0 where they were 0).
C3_AtomicFailure ==
    FailedBeforeMintCompleted =>
        /\ mint.supply = entry.mint.supply
        /\ \A t \in TokenKeys : toks[t].amount = entry.toks[t].amount

C3_Witness ==
    /\ FailedBeforeMintCompleted
    /\ calls = <<[op |-> "mint_to", ok |-> FALSE]>>
    /\ mint.supply = Zero /\ Destination.amount = Zero

\* C4: a run on a state that violates one of the preconditions 1-7 makes no
\* delegated call, changes no field of the mint or of any token account, fails,
\* and when it repeats the invocation before it on the state that one started
\* from, fails with the same error.
C4_IdempotentFailure ==
    [][ (pc = "called" /\ pc' = "returned" /\ Len(accounts) >= 4
            /\ ~AllPre(accounts, mint, toks)) =>
          /\ calls' = <<>>
          /\ mint' = mint
          /\ toks' = toks
          /\ result' \notin {"Ok", None}
          /\ ((rerun /\ entry = World) => result' = result) ]_vars

C4_Witness ==
    /\ Returned /\ rerun /\ Len(accounts) = 5
    /\ ~AllPre(accounts, entry.mint, entry.toks)
    /\ result = "TokenAccountNotEmpty"

\* C5 as claimed: every call (of five accounts) whose mint authority and payer
\* differ fails with MintAuthorityMismatch, whether or not both have signed.
C5_Original ==
    (Returned /\ Len(accounts) = 5 /\ ~Pre2(accounts)) => result = "MintAuthorityMismatch"

\* C5 as amended: every call that supplies all five accounts and in which mint
\* authority and payer have both signed but differ fails with
\* MintAuthorityMismatch, whatever the state of the mint and the destination.
C5_RoleCollapse ==
    (Returned /\ Len(accounts) = 5 /\ Pre1(accounts) /\ ~Pre2(accounts))
        => result = "MintAuthorityMismatch"

C5_Witness ==
    /\ Returned /\ Len(accounts) = 5 /\ Pre1(accounts) /\ ~Pre2(accounts)
    /\ entry.mint.supply # Zero
    /\ result = "MintAuthorityMismatch"

\* C6: for five accounts and an initialized destination, when some precondition
\* is violated the error returned is that of the lowest-numbered violated one.
C6_FirstFailureWins ==
    (Returned /\ Len(accounts) = 5 /\ DestinationAtEntry.state # "Uninitialized"
        /\ ~AllPre(accounts, entry.mint, entry.toks))
        => result = FirstViolated(accounts, entry.mint, entry.toks)

\* C7: with preconditions 1-4 satisfied, every violation of the mint entry
\* conditions fails with InvalidMintState and mutates nothing.
C7_InvalidMintState ==
    (Returned /\ Len(accounts) = 5 /\ Pre1to4(accounts) /\ ~Pre5(accounts, entry.mint))
        => (result = "InvalidMintState" /\ Unmutated)

\* What C8 says of a run, given the preconditions 1-5
C8_Body ==
    /\ ~Pre6(accounts, DestinationAtEntry) =>
          (result = "TokenAccountOwnerMismatch" /\ Unmutated)
    /\ (Pre6(accounts, DestinationAtEntry) /\ ~Pre7(accounts, DestinationAtEntry)) =>
          (result = "TokenAccountNotEmpty" /\ Unmutated)

\* C8 as claimed: with five accounts and preconditions 1-5 satisfied, a destination not owned by
\* the payer fails with TokenAccountOwnerMismatch, and otherwise a destination
\* of another mint, with a balance, a delegate or a close authority fails with
\* TokenAccountNotEmpty; nothing is mutated.
C8_Original ==
    (Returned /\ Len(accounts) = 5 /\ Pre1to4(accounts) /\ Pre5(accounts, entry.mint))
        => C8_Body

\* C8 as amended: the same, for calls that supply all five accounts and whose
\* destination is an initialized token account.
C8_DestinationChecks ==
    (Returned /\ Len(accounts) = 5 /\ Pre1to4(accounts) /\ Pre5(accounts, entry.mint)
        /\ DestinationAtEntry.state # "Uninitialized")
        => C8_Body

C8_Witness ==
    /\ Returned /\ Len(accounts) = 5 /\ Pre1to4(accounts) /\ Pre5(accounts, entry.mint)
    /\ ~Pre6(accounts, DestinationAtEntry) /\ ~Pre7(accounts, DestinationAtEntry)
    /\ DestinationAtEntry.state # "Uninitialized"
    /\ result = "TokenAccountOwnerMismatch"

\* C9: within one run set_authority is called only after mint_to has returned
\* success; when mint_to fails the run returns that failure, set_authority is
\* not called, and the mint keeps its authority and a supply of 0.
C9_NoRevokeAfterFailedMint ==
    Returned =>
        /\ \A i \in DOMAIN calls :
              calls[i].op = "set_authority" =>
                  (i = 2 /\ calls[1] = [op |-> "mint_to", ok |-> TRUE])
        /\ (calls # <<>> /\ ~calls[1].ok) =>
              /\ result = "MintToError"
              /\ Len(calls) = 1
              /\ mint.mint_authority = accounts[3].key
              /\ mint.supply = Zero

C9_Witness ==
    /\ Returned
    /\ calls = <<[op |-> "mint_to", ok |-> FALSE]>>
    /\ result = "MintToError"

\* C10: whatever the token program does, a run never returns success while the
\* mint still has a mint authority; when set_authority reported success and the
\* authority is still there, the run fails with MintAuthorityNotRevoked.
C10_PostConditionGate ==
    Returned =>
        /\ (result = "Ok" => mint.mint_authority = None)
        /\ (Len(calls) = 2 /\ calls[2].ok /\ mint.mint_authority # None)
              => result = "MintAuthorityNotRevoked"

C10_Witness ==
    /\ Returned
    /\ Len(calls) = 2 /\ calls[2].ok
    /\ mint.mint_authority # None
    /\ result = "MintAuthorityNotRevoked"

\* The mint as a failed revocation leaves it: everything minted, authority kept
PartialState(m) == m.supply = ScaledTotal /\ m.mint_authority # None

\* C11 as stated: after a run that minted and failed to revoke, every later
\* run is rejected with InvalidMintState (here, those given five accounts).
C11_Original ==
    (Returned /\ PartialState(entry.mint) /\ Len(accounts) = 5)
        => result = "InvalidMintState"

\* C11: a run whose mint_to succeeded and whose set_authority failed returns
\* that failure after exactly these two calls, and leaves the supply at
\* 500_000_000 * 10^9, all of it in the destination, and the authority in
\* place; every run that starts from such a mint fails without any delegated
\* call and without changing any account, and it fails with InvalidMintState
\* whenever it has five accounts that pass preconditions 1 to 4.
C11_PartialFailure ==
    Returned =>
        /\ result = "SetAuthorityError" =>
              /\ calls = <<[op |-> "mint_to", ok |-> TRUE],
                           [op |-> "set_authority", ok |-> FALSE]>>
              /\ mint.supply = ScaledTotal
              /\ mint.mint_authority = accounts[3].key
              /\ Destination.amount = ScaledTotal
        /\ PartialState(entry.mint) =>
              /\ result \notin {"Ok", None}
              /\ calls = <<>>
              /\ Unmutated
              /\ (Len(accounts) = 5 /\ Pre1to4(accounts)) => result = "InvalidMintState"

\* The invocation that failed at the revocation is run again
C11_Witness ==
    /\ Returned
    /\ rerun
    /\ PartialState(entry.mint)
    /\ calls = <<>>
    /\ result = "InvalidMintState"

\* The exact product TOTAL_SUPPLY * 10^DECIMALS of a build, and whether it
\* fits a u64
ExactScaled(b) == Mul(b.total_supply, pow10(b.decimals))

Fits(b) == Leq(ExactScaled(b), U64_MAX)

\* C12: whatever the constants TOTAL_SUPPLY and DECIMALS of the build, when
\* TOTAL_SUPPLY * 10^DECIMALS does not fit 64 bits the run fails and mints
\* nothing, wrapped or truncated; with the shipped constants the scaled value
\* is 5 * 10^17 and the run gets past the gate.
C12_OverflowGate ==
    /\ build = ShippedBuild => total_supply_with_decimals = {ScaledTotal}
    /\ (Returned /\ ~Fits(build)) =>
          /\ result \notin {"Ok", None}
          /\ Unmutated

\* C13: a run that returns Ok has changed the supply and the mint authority
\* of the mint and the amount of the destination and nothing else: the other
\* fields of the mint (decimals, is_initialized, freeze authority), the other
\* fields of the destination (owner, mint, delegate, close authority, state)
\* and the other token account are as they were at entry; and between
\* invocations nothing of an invocation is kept besides the account data.
C13_SuccessFrame ==
    /\ (Returned /\ result = "Ok") =>
          /\ mint = [entry.mint EXCEPT !.supply = mint.supply,
                                       !.mint_authority = mint.mint_authority]
          /\ toks = [entry.toks EXCEPT ![accounts[2].key].amount = Destination.amount]
    /\ pc = "idle" => (accounts = <<>> /\ result = None /\ calls = <<>>)

\* A successful run into T2, the mint and T2 changed, T1 next to it untouched
C13_Witness ==
    /\ Returned
    /\ result = "Ok"
    /\ accounts[2].key = "T2"
    /\ mint.supply # entry.mint.supply
    /\ mint.mint_authority # entry.mint.mint_authority
    /\ Destination.amount # DestinationAtEntry.amount
    /\ toks["T1"] = entry.toks["T1"]
    /\ toks["T1"].state = "Initialized"

\* The three states of the mint
UninitializedMint(m) == m.supply = Zero /\ m.mint_authority # None

SupplyMinted(m) == m.supply = ScaledTotal /\ m.mint_authority # None

AuthorityRevoked(m) == m.supply = ScaledTotal /\ m.mint_authority = None

\* C14: the program changes a mint only forward, from Uninitialized-mint
\* (supply 0, authority set) to Supply-minted (supply 500_000_000 * 10^9,
\* authority set) or on to Authority-revoked (same supply, no authority);
\* it changes no mint that is Supply-minted or Authority-revoked, so nothing
\* goes backward and Authority-revoked is terminal; and it never takes the
\* authority away from a mint whose supply stays 0.
C14_StateMachine ==
    [][ /\ mint' # mint =>
              /\ UninitializedMint(mint)
              /\ SupplyMinted(mint') \/ AuthorityRevoked(mint')
        /\ AuthorityRevoked(mint) => AuthorityRevoked(mint')
        /\ SupplyMinted(mint) => ~UninitializedMint(mint')
        /\ (mint'.supply = Zero /\ mint'.mint_authority = None)
              => mint.mint_authority = None ]_vars

\* A run took the mint from Uninitialized-mint to Supply-minted and stopped
\* there
C14_Witness ==
    /\ Returned
    /\ UninitializedMint(entry.mint)
    /\ SupplyMinted(mint)
    /\ result # "Ok"

\* C15: every run ends with one result, Ok or one error; it makes at most
\* two delegated calls, mint_to at most once and first, set_authority at most
\* once and only after mint_to succeeded; and when a delegated call fails,
\* that call is the last one and its error is what the run returns.
C15_NoRetry ==
    /\ pc = "idle" => result = None
    /\ Returned =>
          /\ result # None
          /\ Len(calls) <= 2
          /\ Len(calls) >= 1 => calls[1].op = "mint_to"
          /\ Len(calls) = 2 => (calls[1].ok /\ calls[2].op = "set_authority")
          /\ (Len(calls) >= 1 /\ ~calls[1].ok) => result = "MintToError"
          /\ (Len(calls) = 2 /\ ~calls[2].ok) => result = "SetAuthorityError"

\* set_authority failed after mint_to, and the run returned that failure
C15_Witness ==
    /\ Returned
    /\ Len(calls) = 2
    /\ ~calls[2].ok
    /\ result = "SetAuthorityError"
    /\ ~rerun

\* C16: over any sequence of runs, whatever fails in them, the supply of the
\* mint changes only from 0 to 500_000_000 * 10^9, and a delegated mint_to
\* succeeds only on a mint whose supply is 0 and only once; so a mint that
\* starts at supply 0 has supply 0 or exactly 500_000_000 * 10^9, never more.
C16_MintedAtMostOnce ==
    [][ /\ minted' <= 1
        /\ mint'.supply # mint.supply =>
              (mint.supply = Zero /\ mint'.supply = ScaledTotal /\ minted' = minted + 1)
        /\ minted' # minted =>
              (minted = 0 /\ minted' = 1 /\ mint.supply = Zero /\ mint'.supply = ScaledTotal) ]_vars

\* The supply was minted by one run and a later run, started from the minted
\* mint, minted nothing more
C16_Witness ==
    /\ Returned
    /\ minted = 1
    /\ entry.mint.supply = ScaledTotal
    /\ mint.supply = ScaledTotal
    /\ calls = <<>>

\* A run that started after some run returned Ok
LaterRun == Returned /\ succeeded >= 1 /\ (result = "Ok" => succeeded >= 2)

\* C17 as stated: after a run returned Ok, every later run fails with
\* InvalidMintState (here, those given five accounts).
C17_Original ==
    (LaterRun /\ Len(accounts) = 5) => result = "InvalidMintState"

\* C17: at most one run ever returns Ok; after it, every run, whatever its
\* destination, signers and payer, fails without any delegated call and
\* without changing any account, and it fails with InvalidMintState whenever
\* it has five accounts that pass preconditions 1 to 4.
C17_OneShot ==
    /\ succeeded <= 1
    /\ LaterRun =>
          /\ result \notin {"Ok", None}
          /\ calls = <<>>
          /\ Unmutated
          /\ (Len(accounts) = 5 /\ Pre1to4(accounts)) => result = "InvalidMintState"

\* After a success, a run towards the other, empty token account is rejected
C17_Witness ==
    /\ LaterRun
    /\ Len(accounts) = 5
    /\ Destination.amount = Zero
    /\ Destination.state = "Initialized"
    /\ result = "InvalidMintState"

\* Token accounts of the mint, and the sum of their balances
BoundToMint(t) == t.state = "Initialized" /\ t.mint = MintKey

RECURSIVE BalanceSum(_)
BalanceSum(S) ==
    IF S = {} THEN Zero
    ELSE LET k == CHOOSE x \in S : TRUE
         IN  Add(IF BoundToMint(toks[k]) THEN toks[k].amount ELSE Zero,
                 BalanceSum(S \ {k}))

\* C18: for a mint that started at supply 0 with its token accounts empty (it
\* is still at supply 0, or the program has minted), in every state, the one
\* a failed revocation leaves included, the balances of the token accounts of
\* the mint add up to its supply; once minted, the whole supply is in one
\* account of the mint; and after the run that minted, that account is the
\* destination passed, owned by the authority that signed.
C18_Conservation ==
    (mint.supply = Zero \/ minted >= 1) =>
        /\ BalanceSum(TokenKeys) = mint.supply
        /\ minted >= 1 =>
              \E k \in TokenKeys :
                  /\ BoundToMint(toks[k])
                  /\ toks[k].amount = mint.supply
                  /\ mint.supply = ScaledTotal
        /\ (Returned /\ calls # <<>> /\ calls[1].ok) =>
              /\ Destination.amount = mint.supply
              /\ BoundToMint(Destination)
              /\ Destination.owner = accounts[3].key
              /\ accounts[3].is_signer

\* The partial state: minted, not revoked, everything in the destination
C18_Witness ==
    /\ Returned
    /\ result = "SetAuthorityError"
    /\ SupplyMinted(mint)
    /\ BalanceSum(TokenKeys) = ScaledTotal
    /\ Destination.amount = ScaledTotal
    /\ DestinationAtEntry.amount = Zero

====
